---- MODULE Spec2Model ----
(***************************************************************************)
(* Typed parameter facade of the speech SDK:                               *)
(*   source/public/cxx_api/speechapi_cxx_factory_parameter.h               *)
(*       FactoryParameterValue, FactoryParameterCollection (C++ wrapper)   *)
(*   source/public/c_api/speechapi_c_session.h                             *)
(*       Session handle and named-parameter functions (C declarations)     *)
(*                                                                         *)
(* The bodies of the C functions (SpeechFactory_..., Session_...), the     *)
(* HandleValueCollection base class and the SPX_THROW_ON_FAIL macro are    *)
(* not part of these two files; they are modelled from the specification   *)
(* of the handle registry (a per-handle store of tagged values).           *)
(*                                                                         *)
(* Strings.  A std::string is modelled as a record [s, len, nul]: the      *)
(* first len characters of the character stream s, with an embedded        *)
(* U+0000 at position nul (0: none).  Two texts of the same stream are     *)
(* prefixes of one another, which is all that truncation by a fixed-size   *)
(* buffer needs.  Parameter names range over NUL-free texts, which is     *)
(* what the C functions' name arguments carry; values and defaults may     *)
(* hold an embedded NUL and may be longer than the facade's buffers.       *)
(***************************************************************************)
EXTENDS Integers, Sequences, FiniteSets, TLC

VARIABLES hstate, props, written, objs, made, ret, nsets

vars == <<hstate, props, written, objs, made, ret, nsets>>

-----------------------------------------------------------------------------
(* Bounds of the model *)

\* Value objects that are kept alive at the same time.
MaxObjs == 2

\* Successful set operations in one behaviour.
MaxSets == 2

-----------------------------------------------------------------------------
(* Program constants *)

\* enum class FactoryParameter
FactoryParameter_Region == 1
FactoryParameter_SubscriptionKey == 2
FactoryParameter_AuthorizationToken == 3
FactoryParameter_Endpoint == 4

\* enum Session_Parameter
SessionParameter_SubscriptionKey == 1
SessionParameter_AuthorizationToken == 2

\* ParameterNameFromEnum: const size_t maxCharCount = 4096
maxCharCountName == 4096

\* GetString: const size_t maxCharCount = 1024
maxCharCount == 1024

SPX_NOERROR == "SPX_NOERROR"
SPXERR_INVALID_HANDLE == "SPXERR_INVALID_HANDLE"
SPXERR_INVALID_ARG == "SPXERR_INVALID_ARG"

-----------------------------------------------------------------------------
(* Texts *)

Empty == [s |-> "", len |-> 0, nul |-> 0]

Text(s, n) == IF n = 0 THEN Empty ELSE [s |-> s, len |-> n, nul |-> 0]

\* The first n characters of s, the k-th of them replaced by U+0000.
TextWithNul(s, n, k) == [s |-> s, len |-> n, nul |-> k]

\* The first k characters of t.
Prefix(t, k) ==
    IF k >= t.len THEN t
    ELSE IF k = 0 THEN Empty
    ELSE [s |-> t.s, len |-> k, nul |-> IF t.nul > k THEN 0 ELSE t.nul]

\* std::string::c_str() read as a C string: the characters before the first
\* U+0000.
c_str(t) == IF t.nul = 0 THEN t ELSE Prefix([t EXCEPT !.nul = 0], t.nul - 1)

\* `return sz;` : a std::string built from a NUL-terminated char array.
StdString(sz) == c_str(sz)

\* Tagged values: what a parameter holds and what an accessor returns.
None == [t |-> "none"]
TStr(x) == [t |-> "string", s |-> x]
TNum(x) == [t |-> "number", n |-> x]
TBool(x) == [t |-> "bool", b |-> x]

-----------------------------------------------------------------------------
(* Inputs *)

\* The factory handle the collection is constructed on: live at first, until
\* its owner closes it.
FactoryHandles == {"f1"}
SessionHandles == {"s1", "s2"}
Handles == FactoryHandles \cup SessionHandles

Name_Region == Text("SPEECH-Region", 13)
Name_SubscriptionKey == Text("SPEECH-SubscriptionKey", 22)
Name_AuthToken == Text("SPEECH-AuthToken", 16)
Name_Endpoint == Text("SPEECH-Endpoint", 15)
Name_Free == Text("n1", 2)

NameInputs == {Name_SubscriptionKey, Name_Free}

\* Enumerators handed to operator[]: a well-known one and one that no
\* enumerator names (static_cast of an out-of-range integer).
EnumInputs == {FactoryParameter_SubscriptionKey, 9}

abc123 == Text("abc123", 6)

StringInputs ==
    { abc123,
      Text("K", maxCharCount - 1), Text("K", maxCharCount + 1),
      TextWithNul("abc123", 6, 4) }

StringDefaults ==
    {Empty, Text("D", 1), Text("K", maxCharCount), Text("K", maxCharCount + 1)}

NumberInputs == {7}
NumberDefaults == {0, 42}

BoolInputs == {TRUE, FALSE}

\* What a C caller passes as const char* value.
CStringInputs == {abc123, Text("K", maxCharCount + 1)}
CStringDefaults == {Empty, Text("K", maxCharCount + 1)}

SessionEnumInputs ==
    {SessionParameter_SubscriptionKey, SessionParameter_AuthorizationToken, 0}

\* Buffer sizes a C caller announces for a name.
NameBufferInputs == {maxCharCountName, 16}

\* Recognizer handles given to Session_From_Recognizer: a live one and one
\* that names no recognizer.
RecoHandles == {"r1", "r0"}

-----------------------------------------------------------------------------
(* The handle registry behind the C functions.                             *)
(*   hstate[h]  "free" (never issued), "open" or "closed"                   *)
(*   props[h]   the parameters of the object behind h: a function from the  *)
(*              names that hold a value to the tagged value                 *)

EmptyStore == [k \in {} |-> None]

Put(f, k, v) == [x \in DOMAIN f \cup {k} |-> IF x = k THEN v ELSE f[x]]

Handle_IsValid(h) == hstate[h] = "open"

\* The object behind h is released; the handle value is not issued again.
Handle_Close(h) ==
    IF Handle_IsValid(h)
    THEN [hr |-> SPX_NOERROR,
          hstate |-> [hstate EXCEPT ![h] = "closed"],
          props |-> [props EXCEPT ![h] = EmptyStore]]
    ELSE [hr |-> SPXERR_INVALID_HANDLE, hstate |-> hstate, props |-> props]

\* The value of type ty stored under name, or None: a name holds one tagged
\* value, and a typed lookup of another type finds nothing.
Lookup(h, name, ty) ==
    IF name \in DOMAIN props[h] /\ props[h][name].t = ty
    THEN props[h][name]
    ELSE None

\* Of the cch characters a caller announces for an output buffer, how many
\* the callee keeps for the terminator: the declarations leave open whether
\* cch counts it.
Reserves == {0, 1}

\* The C string the callee leaves in a buffer of cch characters: a value that
\* does not fit is cut.
CopyToBuffer(cstr, cch, reserve) == Prefix(cstr, cch - reserve)

SetParameter(api, h, name, v) ==
    IF Handle_IsValid(h)
    THEN [hr |-> SPX_NOERROR, api |-> api,
          props |-> [props EXCEPT ![h] = Put(@, name, v)]]
    ELSE [hr |-> SPXERR_INVALID_HANDLE, api |-> api, props |-> props]

GetParameter(api, h, name, ty, default) ==
    IF Handle_IsValid(h)
    THEN [hr |-> SPX_NOERROR, api |-> api,
          out |-> IF Lookup(h, name, ty) # None
                  THEN Lookup(h, name, ty) ELSE default]
    ELSE [hr |-> SPXERR_INVALID_HANDLE, api |-> api, out |-> None]

\* A bool-returning function has no status to report: on a handle that is
\* not valid nothing is contained.
ContainsParameter(api, h, name, ty) ==
    [api |-> api, out |-> Handle_IsValid(h) /\ Lookup(h, name, ty) # None]

\* The canonical names of the well-known parameters, per handle class.
FactoryParameterNames ==
    [c \in {FactoryParameter_Region, FactoryParameter_SubscriptionKey,
            FactoryParameter_AuthorizationToken, FactoryParameter_Endpoint} |->
        CASE c = FactoryParameter_Region -> Name_Region
          [] c = FactoryParameter_SubscriptionKey -> Name_SubscriptionKey
          [] c = FactoryParameter_AuthorizationToken -> Name_AuthToken
          [] OTHER -> Name_Endpoint]

SessionParameterNames ==
    [c \in {SessionParameter_SubscriptionKey,
            SessionParameter_AuthorizationToken} |->
        IF c = SessionParameter_SubscriptionKey
        THEN Name_SubscriptionKey ELSE Name_AuthToken]

\* Takes no handle.  Fails on a code no enumerator names and on a name that
\* does not fit the buffer.
GetParameter_Name(api, table, parameter, cch) ==
    IF parameter \notin DOMAIN table \/ table[parameter].len > cch
    THEN [hr |-> SPXERR_INVALID_ARG, api |-> api, out |-> None]
    ELSE [hr |-> SPX_NOERROR, api |-> api, out |-> table[parameter]]

(* The factory C functions the C++ wrapper calls. *)

SpeechFactory_GetParameter_Name(parameter, cch) ==
    GetParameter_Name("SpeechFactory_GetParameter_Name",
                      FactoryParameterNames, parameter, cch)

SpeechFactory_SetParameter_String(h, name, value) ==
    SetParameter("SpeechFactory_SetParameter_String", h, name, TStr(value))

SpeechFactory_GetParameter_String(h, name, cch, defaultValue, reserve) ==
    LET r == GetParameter("SpeechFactory_GetParameter_String", h, name,
                          "string", TStr(defaultValue))
    IN  IF r.hr = SPX_NOERROR
        THEN [r EXCEPT !.out = CopyToBuffer(r.out.s, cch, reserve)]
        ELSE r

SpeechFactory_ContainsParameter_String(h, name) ==
    ContainsParameter("SpeechFactory_ContainsParameter_String", h, name,
                      "string")

SpeechFactory_SetParameter_Int32(h, name, value) ==
    SetParameter("SpeechFactory_SetParameter_Int32", h, name, TNum(value))

SpeechFactory_GetParameter_Int32(h, name, defaultValue) ==
    LET r == GetParameter("SpeechFactory_GetParameter_Int32", h, name,
                          "number", TNum(defaultValue))
    IN  IF r.hr = SPX_NOERROR THEN [r EXCEPT !.out = r.out.n] ELSE r

SpeechFactory_ContainsParameter_Int32(h, name) ==
    ContainsParameter("SpeechFactory_ContainsParameter_Int32", h, name,
                      "number")

SpeechFactory_SetParameter_Bool(h, name, value) ==
    SetParameter("SpeechFactory_SetParameter_Bool", h, name, TBool(value))

SpeechFactory_GetParameter_Bool(h, name, defaultValue) ==
    LET r == GetParameter("SpeechFactory_GetParameter_Bool", h, name,
                          "bool", TBool(defaultValue))
    IN  IF r.hr = SPX_NOERROR THEN [r EXCEPT !.out = r.out.b] ELSE r

SpeechFactory_ContainsParameter_Bool(h, name) ==
    ContainsParameter("SpeechFactory_ContainsParameter_Bool", h, name, "bool")

(* The session C functions of speechapi_c_session.h. *)

\* Mutant: the value of a closed handle is issued again.
Issuable_Reissues == {h \in SessionHandles : hstate[h] # "open"}

\* The handle values the registry may issue next: one is issued once.
Issuable == {h \in SessionHandles : hstate[h] = "free"}

\* Issues a session handle for a live recognizer.
Session_From_Recognizer(hreco) ==
    IF hreco = "r1"
    THEN LET hsession == CHOOSE h \in Issuable : TRUE
         IN  [hr |-> SPX_NOERROR, out |-> [t |-> "handle", h |-> hsession],
              hstate |-> [hstate EXCEPT ![hsession] = "open"]]
    ELSE [hr |-> SPXERR_INVALID_HANDLE, out |-> None, hstate |-> hstate]

Session_Handle_IsValid(hsession) == Handle_IsValid(hsession)

Session_Handle_Close(hsession) == Handle_Close(hsession)

Session_GetParameter_Name(parameter, cchName) ==
    GetParameter_Name("Session_GetParameter_Name", SessionParameterNames,
                      parameter, cchName)

Session_SetParameter_String(hsession, name, value) ==
    SetParameter("Session_SetParameter_String", hsession, name, TStr(value))

Session_GetParameter_String(hsession, name, cchValue, defaultValue, reserve) ==
    LET r == GetParameter("Session_GetParameter_String", hsession, name,
                          "string", TStr(defaultValue))
    IN  IF r.hr = SPX_NOERROR
        THEN [r EXCEPT !.out = TStr(CopyToBuffer(r.out.s, cchValue, reserve))]
        ELSE r

Session_ContainsParameter_String(hsession, name) ==
    ContainsParameter("Session_ContainsParameter_String", hsession, name,
                      "string")

Session_SetParameter_Int32(hsession, name, value) ==
    SetParameter("Session_SetParameter_Int32", hsession, name, TNum(value))

Session_GetParameter_Int32(hsession, name, defaultValue) ==
    GetParameter("Session_GetParameter_Int32", hsession, name, "number",
                 TNum(defaultValue))

Session_ContainsParameter_Int32(hsession, name) ==
    ContainsParameter("Session_ContainsParameter_Int32", hsession, name,
                      "number")

Session_SetParameter_Bool(hsession, name, value) ==
    SetParameter("Session_SetParameter_Bool", hsession, name, TBool(value))

Session_GetParameter_Bool(hsession, name, defaultValue) ==
    GetParameter("Session_GetParameter_Bool", hsession, name, "bool",
                 TBool(defaultValue))

Session_ContainsParameter_Bool(hsession, name) ==
    ContainsParameter("Session_ContainsParameter_Bool", hsession, name, "bool")

-----------------------------------------------------------------------------
(* class FactoryParameterValue.                                            *)
(* Every operation yields [hr, val, calls, props]: the status it ends with *)
(* (other than SPX_NOERROR: the exception SPX_THROW_ON_FAIL throws), the    *)
(* value it returns, the C functions it called, and the registry's store    *)
(* after it.                                                                *)

Return(v, calls, p) ==
    [hr |-> SPX_NOERROR, val |-> v, calls |-> calls, props |-> p]

Throw(hr, calls) == [hr |-> hr, val |-> None, calls |-> calls, props |-> props]

\* Mutant: the enumerator is taken as a zero-based index into the names.
ParameterNameFromEnum_ZeroBased(parameter) ==
    LET r == SpeechFactory_GetParameter_Name(parameter - 1, maxCharCountName)
    IN  IF r.hr # SPX_NOERROR
        THEN Throw(r.hr, <<r.api>>)
        ELSE Return(StdString(r.out), <<r.api>>, props)

ParameterNameFromEnum(parameter) ==
    LET r == SpeechFactory_GetParameter_Name(parameter, maxCharCountName)
    IN  IF r.hr # SPX_NOERROR
        THEN Throw(r.hr, <<r.api>>)
        ELSE Return(StdString(r.out), <<r.api>>, props)

\* Mutant: the constructor asks the registry whether the name exists.
FactoryParameterValue_Probes(hfactory, name) ==
    LET r == SpeechFactory_ContainsParameter_String(hfactory, c_str(name))
    IN  Return([m_hfactory |-> hfactory, m_name |-> name], <<r.api>>, props)

\* FactoryParameterValue(SPXFACTORYHANDLE hfactory, const std::string& name)
FactoryParameterValue(hfactory, name) ==
    Return([m_hfactory |-> hfactory, m_name |-> name], <<>>, props)

\* FactoryParameterValue(SPXFACTORYHANDLE hfactory, FactoryParameter parameter)
FactoryParameterValue_Enum(hfactory, parameter) ==
    LET n == ParameterNameFromEnum(parameter)
    IN  IF n.hr # SPX_NOERROR
        THEN n
        ELSE Return([m_hfactory |-> hfactory, m_name |-> n.val], n.calls, props)

(* private static helpers *)

\* Mutant: `return defaultValue;` in place of `return sz;`.
GetString_ReturnsDefault(hfactory, name, defaultValue, reserve) ==
    LET r == SpeechFactory_GetParameter_String(
                 hfactory, c_str(name), maxCharCount, c_str(defaultValue), reserve)
    IN  IF r.hr # SPX_NOERROR
        THEN Throw(r.hr, <<r.api>>)
        ELSE Return(TStr(defaultValue), <<r.api>>, props)

GetString(hfactory, name, defaultValue, reserve) ==
    LET r == SpeechFactory_GetParameter_String(
                 hfactory, c_str(name), maxCharCount, c_str(defaultValue), reserve)
    IN  IF r.hr # SPX_NOERROR
        THEN Throw(r.hr, <<r.api>>)
        ELSE Return(TStr(StdString(r.out)), <<r.api>>, props)

\* Mutant: 0 is passed as the default in place of defaultValue.
GetNumber_ZeroDefault(hfactory, name, defaultValue) ==
    LET r == SpeechFactory_GetParameter_Int32(hfactory, c_str(name), 0)
    IN  IF r.hr # SPX_NOERROR
        THEN Throw(r.hr, <<r.api>>)
        ELSE Return(TNum(r.out), <<r.api>>, props)

GetNumber(hfactory, name, defaultValue) ==
    LET r == SpeechFactory_GetParameter_Int32(hfactory, c_str(name), defaultValue)
    IN  IF r.hr # SPX_NOERROR
        THEN Throw(r.hr, <<r.api>>)
        ELSE Return(TNum(r.out), <<r.api>>, props)

\* Mutant: `return !value;` in place of `return !!value;`.
GetBool_SingleNot(hfactory, name, defaultValue) ==
    LET r == SpeechFactory_GetParameter_Bool(hfactory, c_str(name), defaultValue)
    IN  IF r.hr # SPX_NOERROR
        THEN Throw(r.hr, <<r.api>>)
        ELSE Return(TBool(~r.out), <<r.api>>, props)

GetBool(hfactory, name, defaultValue) ==
    LET r == SpeechFactory_GetParameter_Bool(hfactory, c_str(name), defaultValue)
    IN  IF r.hr # SPX_NOERROR
        THEN Throw(r.hr, <<r.api>>)
        ELSE Return(TBool(~~r.out), <<r.api>>, props)

SetString(hfactory, name, value) ==
    LET r == SpeechFactory_SetParameter_String(hfactory, c_str(name), c_str(value))
    IN  IF r.hr # SPX_NOERROR
        THEN Throw(r.hr, <<r.api>>)
        ELSE Return(None, <<r.api>>, r.props)

SetNumber(hfactory, name, value) ==
    LET r == SpeechFactory_SetParameter_Int32(hfactory, c_str(name), value)
    IN  IF r.hr # SPX_NOERROR
        THEN Throw(r.hr, <<r.api>>)
        ELSE Return(None, <<r.api>>, r.props)

\* Mutant: the status of the C function is dropped (no SPX_THROW_ON_FAIL).
SetBool_Unchecked(hfactory, name, value) ==
    LET r == SpeechFactory_SetParameter_Bool(hfactory, c_str(name), value)
    IN  Return(None, <<r.api>>, r.props)

SetBool(hfactory, name, value) ==
    LET r == SpeechFactory_SetParameter_Bool(hfactory, c_str(name), value)
    IN  IF r.hr # SPX_NOERROR
        THEN Throw(r.hr, <<r.api>>)
        ELSE Return(None, <<r.api>>, r.props)

ContainsString(hfactory, name) ==
    LET r == SpeechFactory_ContainsParameter_String(hfactory, c_str(name))
    IN  Return(TBool(r.out), <<r.api>>, props)

ContainsNumber(hfactory, name) ==
    LET r == SpeechFactory_ContainsParameter_Int32(hfactory, c_str(name))
    IN  Return(TBool(r.out), <<r.api>>, props)

ContainsBool(hfactory, name) ==
    LET r == SpeechFactory_ContainsParameter_Bool(hfactory, c_str(name))
    IN  Return(TBool(r.out), <<r.api>>, props)

(* public overrides of Value, on an object o = [m_hfactory, m_name] *)

Value_IsString(o) == ContainsString(o.m_hfactory, c_str(o.m_name))

Value_GetString(o, defaultValue, reserve) ==
    GetString(o.m_hfactory, c_str(o.m_name), c_str(defaultValue), reserve)

Value_SetString(o, value) == SetString(o.m_hfactory, o.m_name, value)

Value_IsNumber(o) == ContainsNumber(o.m_hfactory, c_str(o.m_name))

Value_GetNumber(o, defaultValue) ==
    GetNumber(o.m_hfactory, c_str(o.m_name), defaultValue)

\* Mutant: the number is not forwarded to the registry.
Value_SetNumber_Deferred(o, value) == Return(None, <<>>, props)

Value_SetNumber(o, value) == SetNumber(o.m_hfactory, c_str(o.m_name), value)

\* Mutant: the slip of FactoryParameterCollection::ContainsBool, made here.
Value_IsBool_AsNumber(o) == ContainsNumber(o.m_hfactory, c_str(o.m_name))

Value_IsBool(o) == ContainsBool(o.m_hfactory, c_str(o.m_name))

Value_GetBool(o, defaultValue) ==
    GetBool(o.m_hfactory, c_str(o.m_name), defaultValue)

Value_SetBool(o, value) == SetBool(o.m_hfactory, c_str(o.m_name), value)

-----------------------------------------------------------------------------
(* class FactoryParameterCollection, on its handle m_handle.               *)

\* Value operator[](const std::string& name)
Subscript(m_handle, name) == FactoryParameterValue(m_handle, name)

\* Value operator[](FactoryParameter parameter)
Subscript_Enum(m_handle, parameter) ==
    FactoryParameterValue_Enum(m_handle, parameter)

(* HandleValueCollection<SPXFACTORYHANDLE, FactoryParameterValue>: each     *)
(* member is the operation of the per-name value.                           *)

Base_ContainsString(m_handle, name) == ContainsString(m_handle, name)
Base_SetString(m_handle, name, value) == SetString(m_handle, name, value)
Base_GetString(m_handle, name, defaultValue, reserve) ==
    GetString(m_handle, name, defaultValue, reserve)
Base_ContainsNumber(m_handle, name) == ContainsNumber(m_handle, name)
Base_SetNumber(m_handle, name, value) == SetNumber(m_handle, name, value)
Base_GetNumber(m_handle, name, defaultValue) ==
    GetNumber(m_handle, name, defaultValue)
Base_ContainsBool(m_handle, name) == ContainsBool(m_handle, name)
Base_SetBool(m_handle, name, value) == SetBool(m_handle, name, value)
Base_GetBool(m_handle, name, defaultValue) ==
    GetBool(m_handle, name, defaultValue)

(* the overrides of FactoryParameterCollection *)

Collection_ContainsString(m_handle, name) == Base_ContainsString(m_handle, name)
Collection_SetString(m_handle, name, value) ==
    Base_SetString(m_handle, name, value)
Collection_GetString(m_handle, name, defaultValue, reserve) ==
    Base_GetString(m_handle, name, defaultValue, reserve)

Collection_ContainsNumber(m_handle, name) == Base_ContainsNumber(m_handle, name)
Collection_SetNumber(m_handle, name, value) ==
    Base_SetNumber(m_handle, name, value)
Collection_GetNumber(m_handle, name, defaultValue) ==
    Base_GetNumber(m_handle, name, defaultValue)

Collection_ContainsBool(m_handle, name) == Base_ContainsNumber(m_handle, name)
Collection_SetBool(m_handle, name, value) == Base_SetBool(m_handle, name, value)
Collection_GetBool(m_handle, name, defaultValue) ==
    Base_GetBool(m_handle, name, defaultValue)

-----------------------------------------------------------------------------
(* State.                                                                  *)
(*   objs     the Value objects the caller holds, in order of construction  *)
(*   ret      the last call: what was called, on what (obj: through which   *)
(*            Value object, 0: none), what came back, and the type of the   *)
(*            value set under the name before it (was; "none": never set)   *)
(*   made     history: how each Value object was constructed, from a name   *)
(*            (None) or from an enumerator                                  *)
(*   written  history: per handle and name as the caller passed it, the     *)
(*            value v of the last set that ended without an exception       *)
(*   nsets    history: sets that ended without an exception                 *)

NoCall ==
    [op |-> "", obj |-> 0, h |-> "", name |-> None, arg |-> None,
     hr |-> SPX_NOERROR, val |-> None, calls |-> <<>>, was |-> "none"]

Init ==
    /\ hstate = [h \in Handles |-> IF h \in FactoryHandles THEN "open" ELSE "free"]
    /\ props = [h \in Handles |-> EmptyStore]
    /\ written = [h \in Handles |-> EmptyStore]
    /\ objs = <<>>
    /\ made = <<>>
    /\ ret = NoCall
    /\ nsets = 0

Entry(h, name, v) == [v |-> v]

Was(h, name) ==
    IF name \in DOMAIN written[h] THEN written[h][name].v.t ELSE "none"

Called(op, i, h, name, arg, r) ==
    [op |-> op, obj |-> i, h |-> h, name |-> name, arg |-> arg,
     hr |-> r.hr, val |-> r.val, calls |-> r.calls, was |-> Was(h, name)]

\* A call that reads: only ret records it.
Reads(op, i, h, name, arg, r) ==
    /\ ret' = Called(op, i, h, name, arg, r)
    /\ props' = r.props
    /\ UNCHANGED <<hstate, written, objs, made, nsets>>

\* A call that sets v under name on h.
Sets(op, i, h, name, v, r) ==
    /\ nsets < MaxSets \/ ~Handle_IsValid(h)
    /\ ret' = Called(op, i, h, name, v, r)
    /\ props' = r.props
    /\ IF r.hr = SPX_NOERROR
       THEN /\ written' = [written EXCEPT ![h] = Put(@, name, Entry(h, name, v))]
            /\ nsets' = nsets + 1
       ELSE UNCHANGED <<written, nsets>>
    /\ UNCHANGED <<hstate, objs, made>>

\* A call that constructs a Value object.
Constructs(op, h, name, arg, r) ==
    /\ Len(objs) < MaxObjs
    /\ ret' = Called(op, 0, h, name, arg, r)
    /\ props' = r.props
    /\ objs' = IF r.hr = SPX_NOERROR THEN Append(objs, r.val) ELSE objs
    /\ made' = IF r.hr = SPX_NOERROR THEN Append(made, arg) ELSE made
    /\ UNCHANGED <<hstate, written, nsets>>

(* collection[name], collection[parameter] *)

Call_Subscript(h, name) ==
    Constructs("operator[]", h, name, None, Subscript(h, name))

Call_Subscript_Enum(h, parameter) ==
    Constructs("operator[]", h, None, TNum(parameter), Subscript_Enum(h, parameter))

(* the accessors of the i-th Value object *)

Call_Value_IsString(i) ==
    Reads("IsString", i, objs[i].m_hfactory, objs[i].m_name, None,
          Value_IsString(objs[i]))

Call_Value_GetString(i, d, reserve) ==
    Reads("GetString", i, objs[i].m_hfactory, objs[i].m_name, TStr(d),
          Value_GetString(objs[i], d, reserve))

Call_Value_SetString(i, v) ==
    Sets("SetString", i, objs[i].m_hfactory, objs[i].m_name, TStr(v),
         Value_SetString(objs[i], v))

Call_Value_IsNumber(i) ==
    Reads("IsNumber", i, objs[i].m_hfactory, objs[i].m_name, None,
          Value_IsNumber(objs[i]))

Call_Value_GetNumber(i, d) ==
    Reads("GetNumber", i, objs[i].m_hfactory, objs[i].m_name, TNum(d),
          Value_GetNumber(objs[i], d))

Call_Value_SetNumber(i, v) ==
    Sets("SetNumber", i, objs[i].m_hfactory, objs[i].m_name, TNum(v),
         Value_SetNumber(objs[i], v))

Call_Value_IsBool(i) ==
    Reads("IsBool", i, objs[i].m_hfactory, objs[i].m_name, None,
          Value_IsBool(objs[i]))

Call_Value_GetBool(i, d) ==
    Reads("GetBool", i, objs[i].m_hfactory, objs[i].m_name, TBool(d),
          Value_GetBool(objs[i], d))

Call_Value_SetBool(i, v) ==
    Sets("SetBool", i, objs[i].m_hfactory, objs[i].m_name, TBool(v),
         Value_SetBool(objs[i], v))

(* the pass-through members of the collection on handle h *)

Call_Collection_ContainsString(h, name) ==
    Reads("ContainsString", 0, h, name, None, Collection_ContainsString(h, name))

Call_Collection_GetString(h, name, d, reserve) ==
    Reads("Collection::GetString", 0, h, name, TStr(d),
          Collection_GetString(h, name, d, reserve))

Call_Collection_SetString(h, name, v) ==
    Sets("Collection::SetString", 0, h, name, TStr(v),
         Collection_SetString(h, name, v))

Call_Collection_ContainsNumber(h, name) ==
    Reads("ContainsNumber", 0, h, name, None, Collection_ContainsNumber(h, name))

Call_Collection_GetNumber(h, name, d) ==
    Reads("Collection::GetNumber", 0, h, name, TNum(d),
          Collection_GetNumber(h, name, d))

Call_Collection_SetNumber(h, name, v) ==
    Sets("Collection::SetNumber", 0, h, name, TNum(v),
         Collection_SetNumber(h, name, v))

Call_Collection_ContainsBool(h, name) ==
    Reads("ContainsBool", 0, h, name, None, Collection_ContainsBool(h, name))

Call_Collection_GetBool(h, name, d) ==
    Reads("Collection::GetBool", 0, h, name, TBool(d),
          Collection_GetBool(h, name, d))

Call_Collection_SetBool(h, name, v) ==
    Sets("Collection::SetBool", 0, h, name, TBool(v),
         Collection_SetBool(h, name, v))

\* The owner of a factory handle closes it.
Call_Factory_Handle_Close(h) ==
    LET r == Handle_Close(h)
    IN  /\ Handle_IsValid(h)
        /\ hstate' = r.hstate
        /\ props' = r.props
        /\ written' = [written EXCEPT ![h] = EmptyStore]
        /\ ret' = [NoCall EXCEPT !.op = "Handle_Close", !.h = h, !.hr = r.hr]
        /\ UNCHANGED <<objs, made, nsets>>

ValueNext ==
    \/ \E h \in FactoryHandles, name \in NameInputs : Call_Subscript(h, name)
    \/ \E h \in FactoryHandles, p \in EnumInputs : Call_Subscript_Enum(h, p)
    \/ \E i \in DOMAIN objs : Call_Value_IsString(i)
    \/ \E i \in DOMAIN objs, d \in StringDefaults, reserve \in Reserves :
          Call_Value_GetString(i, d, reserve)
    \/ \E i \in DOMAIN objs, v \in StringInputs : Call_Value_SetString(i, v)
    \/ \E i \in DOMAIN objs : Call_Value_IsNumber(i)
    \/ \E i \in DOMAIN objs, d \in NumberDefaults : Call_Value_GetNumber(i, d)
    \/ \E i \in DOMAIN objs, v \in NumberInputs : Call_Value_SetNumber(i, v)
    \/ \E i \in DOMAIN objs : Call_Value_IsBool(i)
    \/ \E i \in DOMAIN objs, d \in BoolInputs : Call_Value_GetBool(i, d)
    \/ \E i \in DOMAIN objs, v \in BoolInputs : Call_Value_SetBool(i, v)
    \/ \E h \in FactoryHandles : Call_Factory_Handle_Close(h)

CollectionNext ==
    \/ \E h \in FactoryHandles, name \in NameInputs :
          Call_Collection_ContainsString(h, name)
    \/ \E h \in FactoryHandles, name \in NameInputs, d \in StringDefaults,
          reserve \in Reserves :
          Call_Collection_GetString(h, name, d, reserve)
    \/ \E h \in FactoryHandles, name \in NameInputs, v \in StringInputs :
          Call_Collection_SetString(h, name, v)
    \/ \E h \in FactoryHandles, name \in NameInputs :
          Call_Collection_ContainsNumber(h, name)
    \/ \E h \in FactoryHandles, name \in NameInputs, d \in NumberDefaults :
          Call_Collection_GetNumber(h, name, d)
    \/ \E h \in FactoryHandles, name \in NameInputs, v \in NumberInputs :
          Call_Collection_SetNumber(h, name, v)
    \/ \E h \in FactoryHandles, name \in NameInputs :
          Call_Collection_ContainsBool(h, name)
    \/ \E h \in FactoryHandles, name \in NameInputs, d \in BoolInputs :
          Call_Collection_GetBool(h, name, d)
    \/ \E h \in FactoryHandles, name \in NameInputs, v \in BoolInputs :
          Call_Collection_SetBool(h, name, v)
    \/ \E h \in FactoryHandles : Call_Factory_Handle_Close(h)

\* A caller working through Value objects obtained from the collection.
Spec == Init /\ [][ValueNext]_vars

\* A caller working through the collection's pass-through members.
CollectionSpec == Init /\ [][CollectionNext]_vars

-----------------------------------------------------------------------------
(* A C caller of the session functions. *)

CCalled(op, h, name, arg, hr, val) ==
    [op |-> op, obj |-> 0, h |-> h, name |-> name, arg |-> arg,
     hr |-> hr, val |-> val, calls |-> <<op>>, was |-> "none"]

CReads(op, h, name, arg, r) ==
    /\ ret' = CCalled(op, h, name, arg, r.hr, r.out)
    /\ UNCHANGED <<hstate, props, written, objs, made, nsets>>

CContains(op, h, name, r) ==
    /\ ret' = CCalled(op, h, name, None, SPX_NOERROR, TBool(r.out))
    /\ UNCHANGED <<hstate, props, written, objs, made, nsets>>

CSets(op, h, name, v, r) ==
    /\ nsets < MaxSets \/ ~Handle_IsValid(h)
    /\ ret' = CCalled(op, h, name, v, r.hr, None)
    /\ props' = r.props
    /\ IF r.hr = SPX_NOERROR
       THEN /\ written' = [written EXCEPT ![h] = Put(@, name, Entry(h, name, v))]
            /\ nsets' = nsets + 1
       ELSE UNCHANGED <<written, nsets>>
    /\ UNCHANGED <<hstate, objs, made>>

\* The model has finitely many handle values: no session is asked for once
\* all are used.
Call_Session_From_Recognizer(hreco) ==
    LET r == Session_From_Recognizer(hreco)
    IN  /\ Issuable # {}
        /\ ret' = CCalled("Session_From_Recognizer",
                          IF r.hr = SPX_NOERROR THEN r.out.h ELSE "",
                          None, None, r.hr, r.out)
        /\ hstate' = r.hstate
        /\ UNCHANGED <<props, written, objs, made, nsets>>

Call_Session_Handle_IsValid(h) ==
    /\ ret' = CCalled("Session_Handle_IsValid", h, None, None, SPX_NOERROR,
                      TBool(Session_Handle_IsValid(h)))
    /\ UNCHANGED <<hstate, props, written, objs, made, nsets>>

Call_Session_Handle_Close(h) ==
    LET r == Session_Handle_Close(h)
    IN  /\ ret' = CCalled("Session_Handle_Close", h, None, None, r.hr, None)
        /\ hstate' = r.hstate
        /\ props' = r.props
        /\ written' = IF r.hr = SPX_NOERROR
                      THEN [written EXCEPT ![h] = EmptyStore] ELSE written
        /\ UNCHANGED <<objs, made, nsets>>

Call_Session_GetParameter_Name(parameter, cch) ==
    LET r == Session_GetParameter_Name(parameter, cch)
    IN  /\ ret' = CCalled("Session_GetParameter_Name", "", None, TNum(parameter),
                          r.hr, IF r.hr = SPX_NOERROR THEN TStr(r.out) ELSE None)
        /\ UNCHANGED <<hstate, props, written, objs, made, nsets>>

Call_Session_SetParameter_String(h, name, v) ==
    CSets("Session_SetParameter_String", h, name, TStr(v),
          Session_SetParameter_String(h, name, v))

Call_Session_GetParameter_String(h, name, d, reserve) ==
    CReads("Session_GetParameter_String", h, name, TStr(d),
           Session_GetParameter_String(h, name, maxCharCount, d, reserve))

Call_Session_ContainsParameter_String(h, name) ==
    CContains("Session_ContainsParameter_String", h, name,
              Session_ContainsParameter_String(h, name))

Call_Session_SetParameter_Int32(h, name, v) ==
    CSets("Session_SetParameter_Int32", h, name, TNum(v),
          Session_SetParameter_Int32(h, name, v))

Call_Session_GetParameter_Int32(h, name, d) ==
    CReads("Session_GetParameter_Int32", h, name, TNum(d),
           Session_GetParameter_Int32(h, name, d))

Call_Session_ContainsParameter_Int32(h, name) ==
    CContains("Session_ContainsParameter_Int32", h, name,
              Session_ContainsParameter_Int32(h, name))

Call_Session_SetParameter_Bool(h, name, v) ==
    CSets("Session_SetParameter_Bool", h, name, TBool(v),
          Session_SetParameter_Bool(h, name, v))

Call_Session_GetParameter_Bool(h, name, d) ==
    CReads("Session_GetParameter_Bool", h, name, TBool(d),
           Session_GetParameter_Bool(h, name, d))

Call_Session_ContainsParameter_Bool(h, name) ==
    CContains("Session_ContainsParameter_Bool", h, name,
              Session_ContainsParameter_Bool(h, name))

SessionNext ==
    \/ \E hreco \in RecoHandles : Call_Session_From_Recognizer(hreco)
    \/ \E h \in SessionHandles : Call_Session_Handle_IsValid(h)
    \/ \E h \in SessionHandles : Call_Session_Handle_Close(h)
    \/ \E p \in SessionEnumInputs, cch \in NameBufferInputs :
          Call_Session_GetParameter_Name(p, cch)
    \/ \E h \in SessionHandles, name \in NameInputs, v \in CStringInputs :
          Call_Session_SetParameter_String(h, name, v)
    \/ \E h \in SessionHandles, name \in NameInputs, d \in CStringDefaults,
          reserve \in Reserves :
          Call_Session_GetParameter_String(h, name, d, reserve)
    \/ \E h \in SessionHandles, name \in NameInputs :
          Call_Session_ContainsParameter_String(h, name)
    \/ \E h \in SessionHandles, name \in NameInputs, v \in NumberInputs :
          Call_Session_SetParameter_Int32(h, name, v)
    \/ \E h \in SessionHandles, name \in NameInputs, d \in NumberDefaults :
          Call_Session_GetParameter_Int32(h, name, d)
    \/ \E h \in SessionHandles, name \in NameInputs :
          Call_Session_ContainsParameter_Int32(h, name)
    \/ \E h \in SessionHandles, name \in NameInputs, v \in BoolInputs :
          Call_Session_SetParameter_Bool(h, name, v)
    \/ \E h \in SessionHandles, name \in NameInputs, d \in BoolInputs :
          Call_Session_GetParameter_Bool(h, name, d)
    \/ \E h \in SessionHandles, name \in NameInputs :
          Call_Session_ContainsParameter_Bool(h, name)

SessionSpec == Init /\ [][SessionNext]_vars

-----------------------------------------------------------------------------
(* What the properties below range over. *)

LiveFactoryHandles == {h \in FactoryHandles : Handle_IsValid(h)}

AllNames == NameInputs \cup {FactoryParameterNames[c] : c \in DOMAIN FactoryParameterNames}

\* The Value object collection[name] on handle h.
ValueOf(h, name) == Subscript(h, name).val

\* A text that passes the facade unchanged: no embedded U+0000, and short
\* enough for the value buffer whichever way the callee counts the terminator.
Plain(t) == t.nul = 0 /\ t.len < maxCharCount

-----------------------------------------------------------------------------
(* C1 *)

\* C1 as stated: after set_string(name, v) on a valid handle, get_string(name, d)
\* returns v for every default d and every string v, and is_string(name) holds.
C1_RoundTripEveryString ==
    (ret.op = "SetString" /\ ret.hr = SPX_NOERROR) =>
        /\ Value_IsString(ValueOf(ret.h, ret.name)).val = TBool(TRUE)
        /\ \A d \in StringDefaults, reserve \in Reserves :
             LET g == Value_GetString(ValueOf(ret.h, ret.name), d, reserve)
             IN  g.hr = SPX_NOERROR /\ g.val = ret.arg

\* C1, amended: after set_string(name, v) on a valid handle, is_string(name)
\* holds and get_string(name, d) returns, for every default d, the characters of
\* v before its first U+0000, cut to the value buffer; that is v itself when v
\* has no embedded U+0000 and fewer than 1024 characters.
C1_RoundTrip ==
    (ret.op = "SetString" /\ ret.hr = SPX_NOERROR) =>
        /\ Value_IsString(ValueOf(ret.h, ret.name)).val = TBool(TRUE)
        /\ \A d \in StringDefaults, reserve \in Reserves :
             LET g == Value_GetString(ValueOf(ret.h, ret.name), d, reserve)
             IN  /\ g.hr = SPX_NOERROR
                 /\ g.val = TStr(Prefix(c_str(ret.arg.s), maxCharCount - reserve))
                 /\ Plain(ret.arg.s) => g.val = ret.arg

\* A get_string that returned the 1023 characters set before, not its default.
C1_Witness ==
    /\ ret.op = "GetString" /\ ret.hr = SPX_NOERROR
    /\ ret.name \in DOMAIN written[ret.h]
    /\ written[ret.h][ret.name].v = ret.val
    /\ ret.val.s.len = maxCharCount - 1
    /\ ret.arg # ret.val

-----------------------------------------------------------------------------
(* C2 *)

\* C2 as stated: on a valid handle, for a name never set, every typed get
\* returns exactly the default it was given, without error, and the contains
\* predicates are false.
C2_DefaultEveryString ==
    \A h \in LiveFactoryHandles : \A name \in AllNames \ DOMAIN written[h] :
        LET o == ValueOf(h, name)
        IN  /\ \A d \in StringDefaults, reserve \in Reserves :
                 /\ Value_GetString(o, d, reserve).hr = SPX_NOERROR
                 /\ Value_GetString(o, d, reserve).val = TStr(d)
            /\ \A d \in NumberDefaults :
                 /\ Value_GetNumber(o, d).hr = SPX_NOERROR
                 /\ Value_GetNumber(o, d).val = TNum(d)
            /\ Value_IsString(o).val = TBool(FALSE)
            /\ Value_IsNumber(o).val = TBool(FALSE)

\* C2, amended: on a valid handle, for a name never set, GetNumber and GetBool
\* return exactly the default, get_string returns the default when it has no
\* embedded U+0000 and fewer than 1024 characters (a longer one comes back
\* cut), none raises an error, and the contains predicates are false.
C2_Default ==
    \A h \in LiveFactoryHandles : \A name \in AllNames \ DOMAIN written[h] :
        LET o == ValueOf(h, name)
        IN  /\ \A d \in StringDefaults, reserve \in Reserves :
                 /\ Value_GetString(o, d, reserve).hr = SPX_NOERROR
                 /\ Plain(d) => Value_GetString(o, d, reserve).val = TStr(d)
                 /\ Value_GetString(o, d, reserve).val =
                        TStr(Prefix(c_str(d), maxCharCount - reserve))
            /\ \A d \in NumberDefaults :
                 /\ Value_GetNumber(o, d).hr = SPX_NOERROR
                 /\ Value_GetNumber(o, d).val = TNum(d)
            /\ \A d \in BoolInputs :
                 /\ Value_GetBool(o, d).hr = SPX_NOERROR
                 /\ Value_GetBool(o, d).val = TBool(d)
            /\ Value_IsString(o).val = TBool(FALSE)
            /\ Value_IsNumber(o).val = TBool(FALSE)
            /\ Value_IsBool(o).val = TBool(FALSE)

\* GetNumber with default 42 on a name never set, after another name was set.
C2_Witness ==
    /\ ret.op = "GetNumber" /\ ret.hr = SPX_NOERROR
    /\ ret.name \notin DOMAIN written[ret.h]
    /\ nsets > 0
    /\ ret.arg = TNum(42) /\ ret.val = TNum(42)

-----------------------------------------------------------------------------
(* C3 *)

\* The canonical name the registry gives for enumerator x.
ResolvedName(x) == SpeechFactory_GetParameter_Name(x, maxCharCountName).out

WellKnown == DOMAIN FactoryParameterNames

\* The last call was a set_string that succeeded, through a Value object that
\* operator[] built from enumerator x.
SetThroughEnum(x) ==
    /\ ret.op = "SetString" /\ ret.hr = SPX_NOERROR
    /\ made[ret.obj] = TNum(x)

\* ... through a Value object built from the canonical name of x.
SetThroughName(x) ==
    /\ ret.op = "SetString" /\ ret.hr = SPX_NOERROR
    /\ made[ret.obj] = None /\ ret.name = ResolvedName(x)

\* C3 as stated: collection[X].set_string(v) followed by
\* collection[name of X].get_string(d) returns v, for every v, and so with the
\* two access forms swapped.
C3_InterchangeableEveryString ==
    \A x \in WellKnown : \A d \in StringDefaults, reserve \in Reserves :
        /\ SetThroughEnum(x) =>
             Value_GetString(Subscript(ret.h, ResolvedName(x)).val, d, reserve).val
                 = ret.arg
        /\ SetThroughName(x) =>
             Value_GetString(Subscript_Enum(ret.h, x).val, d, reserve).val
                 = ret.arg

\* C3, amended: collection[X] and collection[name of X] are the same Value
\* (same handle, same name), so a string set through one is what a get through
\* the other returns: the characters of v before its first U+0000, cut to the
\* value buffer, which is v itself when v has no embedded U+0000 and fewer
\* than 1024 characters.
C3_Interchangeable ==
    \A x \in WellKnown :
        /\ \A h \in FactoryHandles :
             /\ Subscript_Enum(h, x).hr = SPX_NOERROR
             /\ Subscript_Enum(h, x).val = Subscript(h, ResolvedName(x)).val
        /\ \A d \in StringDefaults, reserve \in Reserves :
             LET byName == Value_GetString(
                               Subscript(ret.h, ResolvedName(x)).val, d, reserve)
                 byEnum == Value_GetString(
                               Subscript_Enum(ret.h, x).val, d, reserve)
                 cut == TStr(Prefix(c_str(ret.arg.s), maxCharCount - reserve))
             IN  /\ SetThroughEnum(x) =>
                     /\ byName.hr = SPX_NOERROR /\ byName.val = cut
                     /\ Plain(ret.arg.s) => byName.val = ret.arg
                 /\ SetThroughName(x) =>
                     /\ byEnum.hr = SPX_NOERROR /\ byEnum.val = cut
                     /\ Plain(ret.arg.s) => byEnum.val = ret.arg

\* "abc123" has been set through collection[FactoryParameter::SubscriptionKey],
\* and the Value collection[name], held since before, gives it back.
C3_Witness ==
    /\ SetThroughEnum(FactoryParameter_SubscriptionKey)
    /\ ret.arg = TStr(abc123)
    /\ \E j \in DOMAIN objs :
          /\ j < ret.obj /\ made[j] = None
          /\ objs[j] = ValueOf(ret.h, ResolvedName(FactoryParameter_SubscriptionKey))
          /\ Value_GetString(objs[j], Empty, 0).val = TStr(abc123)

-----------------------------------------------------------------------------
(* C4 *)

\* Handle values that are not valid: closed ones and ones never issued.
InvalidHandles == {h \in Handles : ~Handle_IsValid(h)}

\* Each get and each set of the Value o ends with status hr, returns nothing
\* and leaves the store as it is.
GetsAndSetsEndWith(o, hr) ==
    /\ \A d \in StringDefaults, reserve \in Reserves :
         /\ Value_GetString(o, d, reserve).hr = hr
         /\ Value_GetString(o, d, reserve).val = None
    /\ \A d \in NumberDefaults :
         Value_GetNumber(o, d).hr = hr /\ Value_GetNumber(o, d).val = None
    /\ \A d \in BoolInputs :
         Value_GetBool(o, d).hr = hr /\ Value_GetBool(o, d).val = None
    /\ \A v \in StringInputs :
         Value_SetString(o, v).hr = hr /\ Value_SetString(o, v).props = props
    /\ \A v \in NumberInputs :
         Value_SetNumber(o, v).hr = hr /\ Value_SetNumber(o, v).props = props
    /\ \A v \in BoolInputs :
         Value_SetBool(o, v).hr = hr /\ Value_SetBool(o, v).props = props

\* C4 as stated: on a closed or invalid handle every accessor, the contains
\* predicates and the enum-to-name resolution included, reports InvalidHandle.
C4_EveryAccessorInvalidHandle ==
    \A h \in InvalidHandles :
        /\ \A name \in AllNames :
             LET o == ValueOf(h, name)
             IN  /\ GetsAndSetsEndWith(o, SPXERR_INVALID_HANDLE)
                 /\ Value_IsString(o).hr = SPXERR_INVALID_HANDLE
                 /\ Value_IsNumber(o).hr = SPXERR_INVALID_HANDLE
                 /\ Value_IsBool(o).hr = SPXERR_INVALID_HANDLE
        /\ \A x \in WellKnown :
             Subscript_Enum(h, x).hr = SPXERR_INVALID_HANDLE

\* C4, amended: on a closed or invalid handle each get and each set reports
\* InvalidHandle (and changes nothing); the contains predicates, which return
\* a bool and no status, return false without an error; the enum-to-name
\* resolution takes no handle and resolves a well-known enumerator as on a
\* valid handle.
C4_InvalidHandle ==
    \A h \in InvalidHandles :
        /\ \A name \in AllNames :
             LET o == ValueOf(h, name)
             IN  /\ GetsAndSetsEndWith(o, SPXERR_INVALID_HANDLE)
                 /\ Value_IsString(o) = Return(TBool(FALSE),
                        <<"SpeechFactory_ContainsParameter_String">>, props)
                 /\ Value_IsNumber(o) = Return(TBool(FALSE),
                        <<"SpeechFactory_ContainsParameter_Int32">>, props)
                 /\ Value_IsBool(o) = Return(TBool(FALSE),
                        <<"SpeechFactory_ContainsParameter_Bool">>, props)
        /\ \A x \in WellKnown :
             /\ Subscript_Enum(h, x).hr = SPX_NOERROR
             /\ Subscript_Enum(h, x).val.m_name = ResolvedName(x)

\* A set_string on the closed handle that ended with InvalidHandle.
C4_Witness ==
    /\ ret.op = "SetString" /\ ret.hr = SPXERR_INVALID_HANDLE
    /\ hstate[ret.h] = "closed"

-----------------------------------------------------------------------------
(* C5 *)

-----------------------------------------------------------------------------
(* C8 *)

Accessors ==
    {"IsString", "GetString", "SetString", "IsNumber", "GetNumber", "SetNumber",
     "IsBool", "GetBool", "SetBool"}

\* C8 as stated: constructing a Value from a string name or from an enumerator
\* calls no C function and cannot fail; each typed accessor calls the backend.
C8_ConstructionTouchesNothing ==
    /\ ret.op = "operator[]" => ret.calls = <<>> /\ ret.hr = SPX_NOERROR
    /\ ret.op \in Accessors => Len(ret.calls) = 1

\* C8, amended (ConstructionOutcome states it of the last call, C8_Construction
\* of every step): constructing a Value from a string name calls no C function
\* and cannot fail.  Constructing it from an enumerator calls
\* SpeechFactory_GetParameter_Name once, to resolve the name, and fails with
\* InvalidArgument when the enumerator is not a well-known one; it reads and
\* changes no parameter.  Each typed accessor makes one backend call.
ConstructionOutcome ==
    /\ (ret.op = "operator[]" /\ ret.name # None) =>
          /\ ret.calls = <<>> /\ ret.hr = SPX_NOERROR
          /\ ret.val = [m_hfactory |-> ret.h, m_name |-> ret.name]
    /\ (ret.op = "operator[]" /\ ret.name = None) =>
          /\ ret.calls = <<"SpeechFactory_GetParameter_Name">>
          /\ ret.arg.n \in WellKnown =>
                /\ ret.hr = SPX_NOERROR
                /\ ret.val = [m_hfactory |-> ret.h, m_name |-> ResolvedName(ret.arg.n)]
          /\ ret.arg.n \notin WellKnown => ret.hr = SPXERR_INVALID_ARG
    /\ ret.op \in Accessors => Len(ret.calls) = 1

C8_Construction ==
    [][ /\ ConstructionOutcome'
        /\ ret'.op = "operator[]" => (props' = props /\ hstate' = hstate) ]_vars

\* collection[enumerator] after parameters were set: the Value was
\* constructed, with one call to the name lookup.
C8_Witness ==
    /\ ret.op = "operator[]" /\ ret.name = None /\ ret.hr = SPX_NOERROR
    /\ ret.calls = <<"SpeechFactory_GetParameter_Name">>
    /\ nsets > 0
    /\ Len(objs) = MaxObjs

-----------------------------------------------------------------------------
(* C9 *)

Holds(r) == r.val = TBool(TRUE)

\* C9: after any sequence of set_string, set_number and set_bool on a valid
\* handle, at most one of is_string, is_number, is_bool holds of a name, and it
\* is the type of the most recent set on that name.
C9_OneRepresentation ==
    \A h \in LiveFactoryHandles : \A name \in AllNames :
        LET o == ValueOf(h, name)
            is == [ty \in {"string", "number", "bool"} |->
                      CASE ty = "string" -> Holds(Value_IsString(o))
                        [] ty = "number" -> Holds(Value_IsNumber(o))
                        [] OTHER -> Holds(Value_IsBool(o))]
        IN  /\ Cardinality({ty \in DOMAIN is : is[ty]}) <= 1
            /\ name \in DOMAIN written[h] =>
                  {ty \in DOMAIN is : is[ty]} = {written[h][name].v.t}

\* A name set as a string has been set as a number: is_number on it holds,
\* is_string no longer does.
C9_Witness ==
    /\ ret.op = "SetNumber" /\ ret.hr = SPX_NOERROR
    /\ ret.was = "string"
    /\ Holds(Value_IsNumber(objs[ret.obj]))
    /\ ~Holds(Value_IsString(objs[ret.obj]))

-----------------------------------------------------------------------------
(* C10 *)

\* What a read of the type of w through the Value o returns, for default d.
TypedRead(o, w, reserve) ==
    CASE w.t = "string" ->
            {Value_GetString(o, d, reserve) : d \in StringDefaults}
      [] w.t = "number" -> {Value_GetNumber(o, d) : d \in NumberDefaults}
      [] OTHER -> {Value_GetBool(o, d) : d \in BoolInputs}

-----------------------------------------------------------------------------
(* C6 *)

\* No call on session handle h succeeds: it is not valid, each get and each set
\* ends with InvalidHandle and changes nothing, each contains predicate is false.
Unusable(h) ==
    /\ ~Session_Handle_IsValid(h)
    /\ \A name \in AllNames :
         /\ \A d \in CStringDefaults, reserve \in Reserves :
              Session_GetParameter_String(h, name, maxCharCount, d, reserve).hr
                  = SPXERR_INVALID_HANDLE
         /\ \A d \in NumberDefaults :
              Session_GetParameter_Int32(h, name, d).hr = SPXERR_INVALID_HANDLE
         /\ \A d \in BoolInputs :
              Session_GetParameter_Bool(h, name, d).hr = SPXERR_INVALID_HANDLE
         /\ \A v \in CStringInputs :
              Session_SetParameter_String(h, name, v) =
                  [hr |-> SPXERR_INVALID_HANDLE,
                   api |-> "Session_SetParameter_String", props |-> props]
         /\ \A v \in NumberInputs :
              Session_SetParameter_Int32(h, name, v) =
                  [hr |-> SPXERR_INVALID_HANDLE,
                   api |-> "Session_SetParameter_Int32", props |-> props]
         /\ \A v \in BoolInputs :
              Session_SetParameter_Bool(h, name, v) =
                  [hr |-> SPXERR_INVALID_HANDLE,
                   api |-> "Session_SetParameter_Bool", props |-> props]
         /\ ~Session_ContainsParameter_String(h, name).out
         /\ ~Session_ContainsParameter_Int32(h, name).out
         /\ ~Session_ContainsParameter_Bool(h, name).out

\* Session_Handle_Close(h) has succeeded: the step that does it, or any state
\* after it.
ClosedBy(h) ==
    \/ hstate[h] = "closed"
    \/ ret'.op = "Session_Handle_Close" /\ ret'.h = h /\ ret'.hr = SPX_NOERROR

\* C6: once Session_Handle_Close(h) has succeeded, in every later state
\* Session_Handle_IsValid(h) is false and no parameter get, set or contains on
\* h succeeds, whatever is called in between.
C6_ClosedForGood ==
    [][ \A h \in SessionHandles :
           ClosedBy(h) => (hstate'[h] = "closed" /\ Unusable(h)') ]_vars

\* A get on a closed session handle ended with InvalidHandle, after another
\* session was obtained and a parameter set on it.
C6_Witness ==
    /\ ret.op = "Session_GetParameter_Int32" /\ ret.hr = SPXERR_INVALID_HANDLE
    /\ hstate[ret.h] = "closed"
    /\ \E h \in SessionHandles :
          h # ret.h /\ hstate[h] = "open" /\ DOMAIN written[h] # {}

-----------------------------------------------------------------------------
(* C7 *)

\* C7: each contains member of the collection gives what the predicate of the
\* same type gives on collection[name]: ContainsBool as IsBool, ContainsString
\* as IsString, ContainsNumber as IsNumber.
C7_ContainsDelegates ==
    \A h \in FactoryHandles : \A name \in AllNames :
        /\ Collection_ContainsString(h, name).val = Value_IsString(ValueOf(h, name)).val
        /\ Collection_ContainsNumber(h, name).val = Value_IsNumber(ValueOf(h, name)).val
        /\ Collection_ContainsBool(h, name).val = Value_IsBool(ValueOf(h, name)).val

====
